---- MODULE Spec2Model ----
(***************************************************************************)
(* Gerenciamento Trader: the ledger script (state, salvarLocal,            *)
(* carregarLocal, calcularKPIs, render, adicionarOperacao and the submit   *)
(* handler) and the balance-only script (bancaAtual and its submit         *)
(* handler), as two state machines over a shared page: a form, a message   *)
(* area, localStorage and the wall clock.                                  *)
(*                                                                         *)
(* Time is a count of clock ticks; a calendar month is MonthLen ticks.     *)
(* Money is in whole reais; the amounts and payouts the model types in     *)
(* keep amount * payout / 100 an integer.  The fields id, strategy and     *)
(* description of an operation are carried through unread by every         *)
(* calculation and are left out of the operation records.  The second      *)
(* DOMContentLoaded listener of the ledger file only paints two cards and  *)
(* is left out.                                                            *)
(***************************************************************************)
EXTENDS Integers, Sequences, FiniteSets

VARIABLES
    pc,            \* "boot": script evaluated, DOMContentLoaded pending; "ready"
    bancaInicial,  \* state.bancaInicial
    operacoes,     \* state.operacoes
    storage,       \* localStorage item ('daytrade_state' / 'bancaAtual')
    form,          \* the values typed in the form fields
    msg,           \* textContent of #formMsg
    kpi,           \* the KPI values last painted by render()
    now,           \* the wall clock
    nSubmit,       \* number of submit events handled
    bancaAtual     \* the balance-only script's bancaAtual

vars == <<pc, bancaInicial, operacoes, storage, form, msg, kpi, now, nSubmit, bancaAtual>>

----------------------------------------------------------------------------
(* Bounds *)

MaxOps == 3        \* longest operation log explored
MaxTime == 4       \* last clock tick explored
MonthLen == 2      \* clock ticks in a calendar month
MaxDrift == 1      \* clock ticks that may pass while one handler runs
MaxSubmits == 2    \* submit events explored

----------------------------------------------------------------------------
(* JavaScript values *)

\* The IEEE NaN of a Number; the time value of an Invalid Date; a property
\* that an object does not have (undefined).
NaN == -1000000
InvalidDate == -1
Absent == -2

BancaInicialPadrao == 5000
BancaPadrao == 100

Min(a, b) == IF a <= b THEN a ELSE b
Max(a, b) == IF a >= b THEN a ELSE b

\* a + b on Numbers
Add(a, b) == IF a = NaN \/ b = NaN THEN NaN ELSE a + b
\* -a on Numbers
Neg(a) == IF a = NaN THEN NaN ELSE 0 - a
\* a < b, a <= b, a >= b on Numbers and on Dates: false when either is NaN
Lt(a, b) == a # NaN /\ b # NaN /\ a # InvalidDate /\ b # InvalidDate /\ a < b
Le(a, b) == a # NaN /\ b # NaN /\ a # InvalidDate /\ b # InvalidDate /\ a <= b
Ge(a, b) == Le(b, a)

\* Number(s) of a string typed in a form field or kept in localStorage
NumberStr(s) ==
    CASE s = "" -> 0
      [] s = "0" -> 0
      [] s = "50" -> 50
      [] s = "80" -> 80
      [] s = "100" -> 100
      [] s = "150" -> 150
      [] s = "250" -> 250
      [] s = "-50" -> -50
      [] OTHER -> NaN

----------------------------------------------------------------------------
(* JSON values of a snapshot.  A string is either an ISO-8601 rendering of *)
(* the instant n (s = "iso") or the text s.                                *)

JNum(n) == [t |-> "num", n |-> n, s |-> ""]
JStr(s) == [t |-> "str", n |-> 0, s |-> s]
JIso(n) == [t |-> "str", n |-> n, s |-> "iso"]
JNull == [t |-> "null", n |-> 0, s |-> ""]
JUndef == [t |-> "undef", n |-> 0, s |-> ""]

\* Number(j)
ToNumber(j) ==
    CASE j.t = "num" -> j.n
      [] j.t = "null" -> 0
      [] j.t = "str" -> IF j.s = "iso" THEN NaN ELSE NumberStr(j.s)
      [] OTHER -> NaN

\* j ? .. : ..
Truthy(j) ==
    CASE j.t = "num" -> j.n # 0 /\ j.n # NaN
      [] j.t = "str" -> j.s # ""
      [] OTHER -> FALSE

\* new Date(j) for a truthy j
NewDate(j) ==
    CASE j.t = "num" -> j.n
      [] j.t = "str" -> IF j.s = "iso" THEN j.n ELSE InvalidDate
      [] OTHER -> InvalidDate

\* JSON.stringify of a Number: NaN is written as null
JOfNumber(n) == IF n = NaN THEN JNull ELSE JNum(n)

\* an entry of the operacoes list of a snapshot: a record (kind "rec"), a
\* primitive such as 5 (kind "prim", no properties) or null (kind "null")
Entry(kind, createdAt, amount, result, payoutPercent) ==
    [kind |-> kind, createdAt |-> createdAt, amount |-> amount,
     result |-> result, payoutPercent |-> payoutPercent]
RecEntry(createdAt, amount, result) ==
    Entry("rec", createdAt, amount, result, JUndef)
PrimEntry == Entry("prim", JUndef, JUndef, JUndef, JUndef)
NullEntry == Entry("null", JUndef, JUndef, JUndef, JUndef)

\* a localStorage item: absent (kind "none"), text that JSON.parse rejects
\* (kind "text"), the text of a number (kind "num", sozinho.js only) or the
\* JSON text of an object (kind "json")
Item(kind, b, isArray, ops, text) ==
    [kind |-> kind, bancaInicial |-> b, isArray |-> isArray, operacoes |-> ops,
     text |-> text]
NoItem == Item("none", JUndef, FALSE, <<>>, "")
TextItem(s) == Item("text", JUndef, FALSE, <<>>, s)
JsonItem(b, ops) == Item("json", b, TRUE, ops, "")
JsonItemNoList(b) == Item("json", b, FALSE, <<>>, "")
NumItem(n) == Item("num", JNum(n), FALSE, <<>>, "")

----------------------------------------------------------------------------
(* The ledger script: persistence *)

\* inicioDoMesAtual() when new Date() reads t
InicioDoMes(t) == (t \div MonthLen) * MonthLen

Op(createdAt, amount, result, payoutPercent) ==
    [createdAt |-> createdAt, amount |-> amount, result |-> result,
     payoutPercent |-> payoutPercent]

\* o.createdAt.toISOString() throws a RangeError on an Invalid Date
SalvarLocalThrows(ops) ==
    \E i \in 1..Len(ops) : ops[i].createdAt = InvalidDate

\* SerialOp with the fault of writing createdAt cut to the start of its month
SerialOpSoMes(o) ==
    Entry("rec", JIso(InicioDoMes(o.createdAt)), JOfNumber(o.amount), JStr(o.result),
          IF o.payoutPercent = Absent THEN JUndef ELSE JNum(o.payoutPercent))
\* an operation as salvarLocal() serialises it: createdAt as an ISO string
SerialOp(o) ==
    Entry("rec", JIso(o.createdAt), JOfNumber(o.amount), JStr(o.result),
          IF o.payoutPercent = Absent THEN JUndef ELSE JNum(o.payoutPercent))

\* the item salvarLocal() writes under 'daytrade_state'
SalvarLocal(b, ops) ==
    JsonItem(JOfNumber(b),
             IF ops = <<>> THEN <<>> ELSE [i \in 1..Len(ops) |-> SerialOp(ops[i])])

\* the callback of parsed.operacoes.map in carregarLocal(), for an entry
\* that is not null; t is new Date()
ParsedOp(e, t) ==
    Op(IF Truthy(e.createdAt) THEN NewDate(e.createdAt) ELSE t,
       ToNumber(e.amount),
       IF e.result = JStr("WIN") THEN "WIN" ELSE "LOSS",
       IF e.payoutPercent.t = "num" THEN e.payoutPercent.n ELSE Absent)

\* Number(parsed.bancaInicial) || 0
ParsedBanca(j) == IF ToNumber(j) = NaN THEN 0 ELSE ToNumber(j)

\* state after carregarLocal() reads item at clock t, from state <<b, ops>>
CarregarLocal(item, b, ops, t) ==
    IF item.kind # "json"
    THEN [bancaInicial |-> b, operacoes |-> ops]
    ELSE IF ~item.isArray
    THEN [bancaInicial |-> ParsedBanca(item.bancaInicial), operacoes |-> <<>>]
    ELSE IF \E i \in 1..Len(item.operacoes) : item.operacoes[i].kind = "null"
    THEN \* o.createdAt of null throws after state.bancaInicial was assigned
         [bancaInicial |-> ParsedBanca(item.bancaInicial), operacoes |-> ops]
    ELSE [bancaInicial |-> ParsedBanca(item.bancaInicial),
          operacoes |-> IF item.operacoes = <<>> THEN <<>>
                        ELSE [i \in 1..Len(item.operacoes) |->
                                 ParsedOp(item.operacoes[i], t)]]

----------------------------------------------------------------------------
(* The ledger script: calcularKPIs *)

\* o.result === 'WIN' ? o.amount : -o.amount
Lucro(o) == IF o.result = "WIN" THEN o.amount ELSE Neg(o.amount)

RECURSIVE SomaLucro(_)
SomaLucro(ops) ==
    IF ops = <<>> THEN 0
    ELSE Add(SomaLucro(SubSeq(ops, 1, Len(ops) - 1)), Lucro(ops[Len(ops)]))

RECURSIVE SomaAmount(_)
SomaAmount(ops) ==
    IF ops = <<>> THEN 0
    ELSE Add(SomaAmount(SubSeq(ops, 1, Len(ops) - 1)), ops[Len(ops)].amount)

\* OpsAntesMes with the fault of <= for <
OpsAntesMesInclusive(ops, startMonth) ==
    SelectSeq(ops, LAMBDA o : Le(o.createdAt, startMonth))
\* ops.filter(o => o.createdAt < startMonth)
OpsAntesMes(ops, startMonth) ==
    SelectSeq(ops, LAMBDA o : Lt(o.createdAt, startMonth))

\* ops.filter(o => o.createdAt >= startMonth && o.createdAt <= new Date()),
\* where the callback for ops[i] reads the clock as agora[i]
RECURSIVE OpsMes(_, _, _)
OpsMes(ops, startMonth, agora) ==
    IF ops = <<>> THEN <<>>
    ELSE LET n == Len(ops)
             rest == OpsMes(SubSeq(ops, 1, n - 1), startMonth, agora)
         IN IF Ge(ops[n].createdAt, startMonth) /\ Le(ops[n].createdAt, agora[n])
            THEN Append(rest, ops[n]) ELSE rest

Conta(ops, r) == Len(SelectSeq(ops, LAMBDA o : o.result = r))

\* a quotient num / den kept exact; Zero is the number 0
Ratio(num, den) == [num |-> num, den |-> den]
Zero == Ratio(0, 1)
Vezes100(x) == IF x = NaN THEN NaN ELSE 100 * x

\* TaxaAcerto with the fault of dividing the wins by the losses alone
TaxaAcertoPorLosses(winsMes, lossesMes) ==
    IF winsMes + lossesMes > 0 THEN Ratio(winsMes * 100, lossesMes) ELSE Zero
\* (winsMes + lossesMes) > 0 ? (winsMes / (winsMes + lossesMes)) * 100 : 0
TaxaAcerto(winsMes, lossesMes) ==
    IF winsMes + lossesMes > 0
    THEN Ratio(winsMes * 100, winsMes + lossesMes) ELSE Zero

\* StreakAtual with the fault of a loop that never breaks: every operation
\* with the result of the last one is counted
StreakAtualSemBreak(ops) ==
    IF ops = <<>> THEN 0 ELSE Conta(ops, ops[Len(ops)].result)
\* number of trailing operations with the result of the last one
RECURSIVE StreakAtual(_)
StreakAtual(ops) ==
    LET n == Len(ops)
    IN IF n = 0 THEN 0
       ELSE IF n = 1 THEN 1
       ELSE IF ops[n - 1].result = ops[n].result
            THEN 1 + StreakAtual(SubSeq(ops, 1, n - 1))
            ELSE 1

\* the counter "atual" after the forward scan of ops
RECURSIVE WinsNoFim(_)
WinsNoFim(ops) ==
    IF ops = <<>> THEN 0
    ELSE IF ops[Len(ops)].result = "WIN"
         THEN WinsNoFim(SubSeq(ops, 1, Len(ops) - 1)) + 1
         ELSE 0

RECURSIVE StreakMax(_)
StreakMax(ops) ==
    IF ops = <<>> THEN 0
    ELSE Max(StreakMax(SubSeq(ops, 1, Len(ops) - 1)), WinsNoFim(ops))

\* a run of clock readings: reads[1] by inicioDoMesAtual(), reads[i + 1] by
\* the filter callback of ops[i]
Leituras(t, hi, n) ==
    {r \in [1..(n + 1) -> t..hi] : \A i \in 1..n : r[i] <= r[i + 1]}

calcularKPIs(b, ops, reads) ==
    LET startMonth == InicioDoMes(reads[1])
        profitAll == SomaLucro(ops)
        profitAntesMes == SomaLucro(OpsAntesMes(ops, startMonth))
        baselineMes == Add(b, profitAntesMes)
        opsMes == OpsMes(ops, startMonth, [i \in 1..Len(ops) |-> reads[i + 1]])
        winsMes == Conta(opsMes, "WIN")
        lossesMes == Conta(opsMes, "LOSS")
        lucroMes == SomaLucro(opsMes)
    IN [bancaAtual |-> Add(b, profitAll),
        baselineMes |-> baselineMes,
        variacaoValor |-> lucroMes,
        variacaoPct |-> IF baselineMes # NaN /\ baselineMes > 0
                        THEN Ratio(Vezes100(lucroMes), baselineMes) ELSE Zero,
        winsMes |-> winsMes,
        lossesMes |-> lossesMes,
        taxaAcerto |-> TaxaAcerto(winsMes, lossesMes),
        lucroMes |-> lucroMes,
        mediaMes |-> IF Len(opsMes) > 0
                     THEN Ratio(SomaAmount(opsMes), Len(opsMes)) ELSE Zero,
        streakAtual |-> StreakAtual(ops),
        streakTipo |-> IF ops = <<>> THEN "null" ELSE ops[Len(ops)].result,
        streakMax |-> StreakMax(ops),
        ultima |-> IF ops = <<>> THEN <<>> ELSE <<ops[Len(ops)]>>]

\* the cards before the first render()
CardsVazios == calcularKPIs(0, <<>>, <<0>>)

----------------------------------------------------------------------------
(* The page: form fields, the clock *)

Form(amount, result, payout, operacional) ==
    [inAmount |-> amount, inResult |-> result, inPayout |-> payout,
     inOperacional |-> operacional]

\* the fields after form.reset()
FormVazio == Form("", "", "", "")

\* what the user types before a submit of the ledger page
FormsLedger ==
    {Form("50", "WIN", "", ""), Form("100", "LOSS", "80", ""),
     Form("-50", "WIN", "", ""), Form("50", "", "", ""),
     Form("100", "WIN", "150", "")}

\* what the user types before a submit of the balance-only page
FormsBanca ==
    {Form("50", "WIN", "", "OTC"), Form("100", "WIN", "80", "OTC"),
     Form("50", "LOSS", "100", "OTC"), Form("100", "LOSS", "80", "OTC"),
     Form("-50", "WIN", "80", "OTC"), Form("50", "", "80", "OTC"),
     Form("100", "WIN", "150", "OTC"), Form("100", "WIN", "x", "OTC"),
     Form("50", "WIN", "80", "")}

\* instants of the snapshots: last month, the first instant of this month
\* (the clock at page load), one tick ahead of the clock
TPassado == 0
TAgora == MonthLen
TFuturo == MonthLen + 1

\* what 'daytrade_state' may hold when the page is first opened
Snapshots ==
    {NoItem,
     TextItem("{oops"),
     JsonItem(JNum(BancaInicialPadrao),
              <<RecEntry(JIso(TPassado), JNum(100), JStr("WIN")),
                RecEntry(JIso(TAgora), JNum(50), JStr("LOSS"))>>),
     JsonItem(JNum(BancaInicialPadrao),
              <<Entry("rec", JIso(TAgora), JNum(100), JStr("WIN"), JNum(80))>>),
     JsonItem(JNum(250), <<RecEntry(JIso(TFuturo), JNum(50), JStr("WIN"))>>),
     JsonItem(JStr("abc"), <<>>),
     JsonItemNoList(JNum(250)),
     JsonItem(JNum(250), <<NullEntry>>),
     JsonItem(JNum(BancaInicialPadrao), <<PrimEntry>>),
     JsonItem(JNum(BancaInicialPadrao),
              <<RecEntry(JStr("ontem"), JNum(50), JStr("WIN"))>>)}

\* what 'bancaAtual' may hold when the page is first opened
SnapshotsBanca == {NoItem, TextItem(""), TextItem("250"), TextItem("abc")}

\* latest clock reading of a handler that starts now
Ate == Min(now + MaxDrift, MaxTime)

----------------------------------------------------------------------------
(* The ledger script: handlers *)

\* Push with the fault of adding at the front
Unshift(ops, op) == <<op>> \o ops
\* state.operacoes.push(op)
Push(ops, op) == Append(ops, op)

\* the op built by adicionarOperacao at clock t
NovaOp(amount, result, t) ==
    Op(t, amount, IF result = "WIN" THEN "WIN" ELSE "LOSS", Absent)

\* !amount || amount <= 0
AmountInvalido(amount) == amount = 0 \/ amount = NaN \/ amount <= 0

\* result !== 'WIN' && result !== 'LOSS'
ResultInvalido(result) == result # "WIN" /\ result # "LOSS"

Init ==
    /\ pc = "boot"
    /\ bancaInicial = BancaInicialPadrao
    /\ operacoes = <<>>
    /\ storage \in Snapshots
    /\ form = FormVazio
    /\ msg = ""
    /\ kpi = CardsVazios
    /\ now = TAgora
    /\ nSubmit = 0
    /\ bancaAtual = Absent

\* the DOMContentLoaded listener: carregarLocal(); render()
DOMContentLoaded ==
    /\ pc = "boot"
    /\ \E t \in now..Ate :
         LET st == CarregarLocal(storage, bancaInicial, operacoes, t)
         IN /\ bancaInicial' = st.bancaInicial
            /\ operacoes' = st.operacoes
            /\ \E reads \in Leituras(t, Ate, Len(st.operacoes)) :
                 /\ kpi' = calcularKPIs(st.bancaInicial, st.operacoes, reads)
                 /\ now' = reads[Len(st.operacoes) + 1]
    /\ pc' = "ready"
    /\ UNCHANGED <<storage, form, msg, nSubmit, bancaAtual>>

\* the user types into the fields of the form
Preencher ==
    /\ pc = "ready"
    /\ \E f \in FormsLedger : f # form /\ form' = f
    /\ UNCHANGED <<pc, bancaInicial, operacoes, storage, msg, kpi, now, nSubmit, bancaAtual>>

\* the submit listener, a field failing validation
SubmitRejeitado ==
    /\ pc = "ready"
    /\ nSubmit < MaxSubmits
    /\ LET amount == NumberStr(form.inAmount)
       IN \/ /\ AmountInvalido(amount)
             /\ msg' = "Informe um valor valido."
          \/ /\ ~AmountInvalido(amount)
             /\ ResultInvalido(form.inResult)
             /\ msg' = "Selecione WIN ou LOSS."
    /\ nSubmit' = nSubmit + 1
    /\ UNCHANGED <<pc, bancaInicial, operacoes, storage, form, kpi, now, bancaAtual>>

\* the submit listener, validation passed: adicionarOperacao (push,
\* salvarLocal, render), form.reset().  When salvarLocal throws, the
\* listener ends there: the op stays pushed, nothing is saved or painted.
SubmitAceito ==
    /\ pc = "ready"
    /\ nSubmit < MaxSubmits
    /\ Len(operacoes) < MaxOps
    /\ ~AmountInvalido(NumberStr(form.inAmount))
    /\ ~ResultInvalido(form.inResult)
    /\ msg' = ""
    /\ nSubmit' = nSubmit + 1
    /\ \E t \in now..Ate :
         LET ops == Push(operacoes, NovaOp(NumberStr(form.inAmount), form.inResult, t))
         IN /\ operacoes' = ops
            /\ IF SalvarLocalThrows(ops)
               THEN /\ now' = t
                    /\ UNCHANGED <<storage, kpi, form>>
               ELSE /\ storage' = SalvarLocal(bancaInicial, ops)
                    /\ \E reads \in Leituras(t, Ate, Len(ops)) :
                         /\ kpi' = calcularKPIs(bancaInicial, ops, reads)
                         /\ now' = reads[Len(ops) + 1]
                    /\ form' = FormVazio
    /\ UNCHANGED <<pc, bancaInicial, bancaAtual>>

\* the wall clock advances
Tick ==
    /\ now < MaxTime
    /\ now' = now + 1
    /\ UNCHANGED <<pc, bancaInicial, operacoes, storage, form, msg, kpi, nSubmit, bancaAtual>>

\* the page is loaded again: the script is evaluated afresh
Recarregar ==
    /\ pc = "ready"
    /\ pc' = "boot"
    /\ bancaInicial' = BancaInicialPadrao
    /\ operacoes' = <<>>
    /\ form' = FormVazio
    /\ msg' = ""
    /\ kpi' = CardsVazios
    /\ UNCHANGED <<storage, now, nSubmit, bancaAtual>>

Next ==
    \/ DOMContentLoaded
    \/ Preencher
    \/ SubmitRejeitado
    \/ SubmitAceito
    \/ Tick
    \/ Recarregar

Spec == Init /\ [][Next]_vars

----------------------------------------------------------------------------
(* The balance-only script (sozinho.js) *)

\* the ledger script is not on this page
SemLedger == UNCHANGED <<bancaInicial, operacoes, kpi, now>>

\* Number(localStorage.getItem('bancaAtual')): getItem gives null when the
\* key is absent, and Number(null) is 0
NumberDoItem(item) ==
    CASE item.kind = "none" -> 0
      [] item.kind = "num" -> item.bancaInicial.n
      [] OTHER -> NumberStr(item.text)

\* the initialiser of bancaAtual
BancaCarregada(item) ==
    IF NumberDoItem(item) # NaN THEN NumberDoItem(item) ELSE BancaPadrao

\* Number.isNaN(payoutPercent) || payoutPercent < 0 || payoutPercent > 100
PayoutInvalido(p) == p = NaN \/ p < 0 \/ p > 100

\* (result === 'WIN') ? (amount * payout) : (-amount), payout = payoutPercent / 100
Delta(amount, payoutPercent, result) ==
    IF result = "WIN" THEN (amount * payoutPercent) \div 100 ELSE 0 - amount

InitBanca ==
    /\ pc = "boot"
    /\ storage \in SnapshotsBanca
    /\ form = FormVazio
    /\ msg = ""
    /\ nSubmit = 0
    /\ bancaAtual = Absent
    /\ bancaInicial = BancaInicialPadrao
    /\ operacoes = <<>>
    /\ kpi = CardsVazios
    /\ now = TAgora

\* the DOMContentLoaded listener: bancaAtual is initialised from localStorage
CarregarBanca ==
    /\ pc = "boot"
    /\ bancaAtual' = BancaCarregada(storage)
    /\ pc' = "ready"
    /\ UNCHANGED <<storage, form, msg, nSubmit>>
    /\ SemLedger

PreencherBanca ==
    /\ pc = "ready"
    /\ \E f \in FormsBanca : f # form /\ form' = f
    /\ UNCHANGED <<pc, storage, msg, nSubmit, bancaAtual>>
    /\ SemLedger

\* the submit listener, a field failing validation
SubmitBancaRejeitado ==
    /\ pc = "ready"
    /\ nSubmit < MaxSubmits
    /\ LET amount == NumberStr(form.inAmount)
           payoutPercent == NumberStr(form.inPayout)
       IN \/ /\ AmountInvalido(amount)
             /\ msg' = "Informe um valor valido (> 0)."
          \/ /\ ~AmountInvalido(amount)
             /\ PayoutInvalido(payoutPercent)
             /\ msg' = "Payout deve ser entre 0 e 100."
          \/ /\ ~AmountInvalido(amount)
             /\ ~PayoutInvalido(payoutPercent)
             /\ ResultInvalido(form.inResult)
             /\ msg' = "Selecione WIN ou LOSS."
          \/ /\ ~AmountInvalido(amount)
             /\ ~PayoutInvalido(payoutPercent)
             /\ ~ResultInvalido(form.inResult)
             /\ form.inOperacional = ""
             /\ msg' = "Selecione o operacional."
    /\ nSubmit' = nSubmit + 1
    /\ UNCHANGED <<pc, storage, form, bancaAtual>>
    /\ SemLedger

\* the submit listener, validation passed: bancaAtual += delta; salvarBanca()
SubmitBancaAceito ==
    /\ pc = "ready"
    /\ nSubmit < MaxSubmits
    /\ ~AmountInvalido(NumberStr(form.inAmount))
    /\ ~PayoutInvalido(NumberStr(form.inPayout))
    /\ ~ResultInvalido(form.inResult)
    /\ form.inOperacional # ""
    /\ msg' = ""
    /\ bancaAtual' = bancaAtual + Delta(NumberStr(form.inAmount),
                                        NumberStr(form.inPayout), form.inResult)
    /\ storage' = NumItem(bancaAtual')
    /\ form' = FormVazio
    /\ nSubmit' = nSubmit + 1
    /\ UNCHANGED pc
    /\ SemLedger

\* the page is loaded again
RecarregarBanca ==
    /\ pc = "ready"
    /\ pc' = "boot"
    /\ bancaAtual' = Absent
    /\ form' = FormVazio
    /\ msg' = ""
    /\ UNCHANGED <<storage, nSubmit>>
    /\ SemLedger

NextBanca ==
    \/ CarregarBanca
    \/ PreencherBanca
    \/ SubmitBancaRejeitado
    \/ SubmitBancaAceito
    \/ RecarregarBanca

SpecBanca == InitBanca /\ [][NextBanca]_vars

----------------------------------------------------------------------------
(* Properties *)

\* the KPIs of the current state when every clock reading gives now
KpiAgora ==
    calcularKPIs(bancaInicial, operacoes, [i \in 1..(Len(operacoes) + 1) |-> now])

\* the KPIs of the current state for a run of clock readings that starts now
KpiCom(reads) == calcularKPIs(bancaInicial, operacoes, reads)
LeiturasAgora == Leituras(now, Ate, Len(operacoes))

\* == of JavaScript on Numbers
JsEq(a, b) == a # NaN /\ b # NaN /\ a = b

\* the data model's operation: a positive amount, a creation time
LedgerValido(ops) ==
    \A i \in 1..Len(ops) :
        /\ ops[i].amount # NaN /\ ops[i].amount > 0
        /\ ops[i].createdAt # InvalidDate

IsPrefix(a, b) == Len(a) <= Len(b) /\ SubSeq(b, 1, Len(a)) = a

\* the profit rule of the specification: the payout applies to a WIN
LucroSpec(o) ==
    IF o.amount = NaN THEN NaN
    ELSE IF o.result = "WIN"
         THEN (o.amount * (IF o.payoutPercent = Absent THEN 100 ELSE o.payoutPercent))
                  \div 100
         ELSE 0 - o.amount

RECURSIVE SomaLucroSpec(_)
SomaLucroSpec(ops) ==
    IF ops = <<>> THEN 0
    ELSE Add(SomaLucroSpec(SubSeq(ops, 1, Len(ops) - 1)), LucroSpec(ops[Len(ops)]))

\* C1: the current balance is the initial balance plus the sum of the
\* per-operation profits, a WIN paying amount * (payoutPercent, or 100 when
\* absent) / 100 and a LOSS costing amount.
C1_SaldoComPayout ==
    pc = "ready" => KpiAgora.bancaAtual = Add(bancaInicial, SomaLucroSpec(operacoes))

\* the validation the specification asks of a submission
FormValidoSpec(f) ==
    /\ NumberStr(f.inAmount) # NaN /\ NumberStr(f.inAmount) > 0
    /\ \/ f.inPayout = ""
       \/ NumberStr(f.inPayout) # NaN /\ NumberStr(f.inPayout) >= 0
                                       /\ NumberStr(f.inPayout) <= 100
    /\ f.inResult \in {"WIN", "LOSS"}

\* C2: a submission that fails validation (amount not a positive number,
\* payout percent outside [0,100], result not WIN or LOSS) sets a message and
\* leaves the log, the balance and the persisted snapshot as they were.
C2_InvalidoNaoMuta ==
    [][(nSubmit' = nSubmit + 1 /\ ~FormValidoSpec(form))
         => /\ msg' # ""
            /\ operacoes' = operacoes
            /\ bancaInicial' = bancaInicial
            /\ storage' = storage]_vars

\* a snapshot that fails to load or is malformed
Malformado(item) ==
    \/ item.kind \in {"none", "text"}
    \/ /\ item.kind = "json"
       /\ \/ item.bancaInicial.t # "num"
          \/ ~item.isArray
          \/ \E i \in 1..Len(item.operacoes) : item.operacoes[i].kind # "rec"

\* C3: after carregarLocal of a snapshot that fails to load or is malformed
\* the state is the default one: the default initial balance and an empty log.
C3_FallbackPadrao ==
    (pc = "ready" /\ Malformado(storage))
        => bancaInicial = BancaInicialPadrao /\ operacoes = <<>>

\* C4: after startup every step keeps the log as a prefix of the next log
\* and adds at most one operation; an accepted submission adds exactly one,
\* and nothing but a submission adds one.
C4_AppendOnly ==
    [][(pc = "ready" /\ pc' = "ready")
         => /\ IsPrefix(operacoes, operacoes')
            /\ Len(operacoes') <= Len(operacoes) + 1
            /\ (nSubmit' = nSubmit + 1 /\ msg' = "")
                   => Len(operacoes') = Len(operacoes) + 1
            /\ Len(operacoes') = Len(operacoes) + 1 => nSubmit' = nSubmit + 1]_vars

\* C4 witness: two accepted submissions have extended a log loaded from a
\* snapshot.
C4_Witness ==
    /\ pc = "ready"
    /\ nSubmit >= 2
    /\ Len(operacoes) >= 3
    /\ operacoes[1].payoutPercent # Absent
    /\ operacoes[3].createdAt > operacoes[1].createdAt

\* C5: after an append that leaves a valid ledger state, carregarLocal of the
\* persisted snapshot, on a fresh page at any later time, gives back the same
\* initial balance and the same operations in the same order.
C5_SnapshotReconstroi ==
    [][(pc = "ready" /\ pc' = "ready" /\ Len(operacoes') = Len(operacoes) + 1
            /\ LedgerValido(operacoes'))
         => \A t \in now'..MaxTime :
               CarregarLocal(storage', BancaInicialPadrao, <<>>, t)
                   = [bancaInicial |-> bancaInicial', operacoes |-> operacoes']]_vars

\* C5 witness: a valid log of loaded and appended operations, not all created
\* at the start of a month, whose snapshot was written by the last append.
C5_Witness ==
    /\ pc = "ready"
    /\ nSubmit >= 1
    /\ Len(operacoes) >= 3
    /\ LedgerValido(operacoes)
    /\ \E i \in 1..Len(operacoes) :
          operacoes[i].createdAt # InicioDoMes(operacoes[i].createdAt)
    /\ storage = SalvarLocal(bancaInicial, operacoes)

\* C6: whenever the current streak is a streak of WINs, the longest run of
\* WINs is at least as long; for the values painted and for the current log.
C6_StreakMax ==
    pc = "ready"
        => /\ kpi.streakTipo = "WIN" => kpi.streakMax >= kpi.streakAtual
           /\ KpiAgora.streakTipo = "WIN"
                  => KpiAgora.streakMax >= KpiAgora.streakAtual

\* C6 witness: a log of three that ends in a streak of two WINs after a LOSS.
C6_Witness ==
    /\ pc = "ready"
    /\ Len(operacoes) = 3
    /\ operacoes[1].result = "LOSS"
    /\ kpi.streakTipo = "WIN"
    /\ kpi.streakAtual = 2
    /\ kpi.streakMax = 2

\* C7: two invocations of the KPI calculation on the same ledger state that
\* start at the same current time give the same result, however the clock
\* advances while either runs.
C7_Deterministico ==
    pc = "ready"
        => \A r1, r2 \in LeiturasAgora : r1[1] = r2[1] => KpiCom(r1) = KpiCom(r2)

\* the operations the calculation takes as this month's, for a run of readings
OpsMesCom(reads) ==
    OpsMes(operacoes, InicioDoMes(reads[1]),
           [i \in 1..Len(operacoes) |-> reads[i + 1]])

\* C8: the hit rate is a percentage in [0,100], and it is 0 when no
\* operation falls in the current month; for every ledger state reached and
\* every run of clock readings.
C8_TaxaAcerto ==
    pc = "ready"
        => \A r \in LeiturasAgora :
              LET taxa == KpiCom(r).taxaAcerto
              IN /\ taxa.den > 0
                 /\ 0 <= taxa.num
                 /\ taxa.num <= 100 * taxa.den
                 /\ OpsMesCom(r) = <<>> => taxa.num = 0

\* C8 witness: a WIN and a LOSS in the current month and an operation
\* outside it.
C8_Witness ==
    /\ pc = "ready"
    /\ kpi.winsMes >= 1
    /\ kpi.lossesMes >= 1
    /\ Len(operacoes) > kpi.winsMes + kpi.lossesMes
    /\ kpi.taxaAcerto = Ratio(100, 2)

\* the key 'bancaAtual' is present and holds the text of a finite number
Utilizavel(item) == item.kind # "none" /\ NumberDoItem(item) # NaN

\* C9: the balance-only script's balance is the value stored under
\* 'bancaAtual', or the default 100 when nothing usable is stored.
C9_BancaPadrao ==
    pc = "ready"
        => bancaAtual = (IF Utilizavel(storage) THEN NumberDoItem(storage)
                         ELSE BancaPadrao)

\* C10, as first stated: monthBaseline + monthProfit equals currentBalance
\* for every valid ledger state, operations created later than now included.
C10_Original ==
    (pc = "ready" /\ LedgerValido(operacoes))
        => \A r \in LeiturasAgora :
              JsEq(Add(KpiCom(r).baselineMes, KpiCom(r).lucroMes),
                   KpiCom(r).bancaAtual)

\* C10, amended: monthBaseline + monthProfit equals currentBalance for every
\* valid ledger state none of whose operations was created later than now.
C10_SplitDoMes ==
    (pc = "ready" /\ LedgerValido(operacoes)
        /\ \A i \in 1..Len(operacoes) : operacoes[i].createdAt <= now)
        => \A r \in LeiturasAgora :
              JsEq(Add(KpiCom(r).baselineMes, KpiCom(r).lucroMes),
                   KpiCom(r).bancaAtual)

\* C10 witness: a valid log with an operation of an earlier month, one
\* created at the first instant of this month and one created later in it.
C10_Witness ==
    /\ pc = "ready"
    /\ LedgerValido(operacoes)
    /\ \A i \in 1..Len(operacoes) : operacoes[i].createdAt <= now
    /\ \E i, j, k \in 1..Len(operacoes) :
          /\ operacoes[i].createdAt < InicioDoMes(now)
          /\ operacoes[j].createdAt = InicioDoMes(now)
          /\ operacoes[k].createdAt > InicioDoMes(now)

====
